---- MODULE Spec2Model ----
(***************************************************************************)
(* Model of mirrord/config/src/fs/advanced.rs: the resolution of the file  *)
(* operations configuration (AdvancedFsUserConfig -> FsConfig) on the      *)
(* normal path (generate_config) and on the toggle path (disabled_config), *)
(* and the is_read / is_write queries of the resolved FsConfig.            *)
(*                                                                         *)
(* Strings are sequences of one-character strings.  An environment         *)
(* variable is a record [set, utf8, s]: unset, set to bytes that are not   *)
(* valid Unicode, or set to the string s.                                  *)
(***************************************************************************)
EXTENDS Naturals, Sequences, FiniteSets

VARIABLES user, explicitMode, env, op, result, asked, readAns, writeAns

vars == <<user, explicitMode, env, op, result, asked, readAns, writeAns>>

(* ------------------------------ bounds --------------------------------- *)

\* longest content of a list-typed environment variable
MaxLen == 2
\* most patterns in a sequence the user writes in the configuration file
MaxVec == 1
\* longest content of a list-typed environment variable in the runs that
\* also vary the mode and its two flags
MaxLenWithFlags == 1

(* ------------------------------ strings -------------------------------- *)

\* the delimiter of a list-typed environment variable
Delimiter == ","

Alphabet == {"a", Delimiter}

RECURSIVE SeqsUpTo(_, _)
SeqsUpTo(S, n) ==
    IF n = 0 THEN {<<>>}
    ELSE LET shorter == SeqsUpTo(S, n - 1)
         IN shorter \cup {Append(w, x) : w \in {v \in shorter : Len(v) = n - 1}, x \in S}

Strs(n) == SeqsUpTo(Alphabet, n)

\* str::split: the pieces between the delimiters, in order; the empty
\* string has one (empty) piece
RECURSIVE SplitFrom(_, _, _)
SplitFrom(s, i, cur) ==
    IF i > Len(s) THEN <<cur>>
    ELSE IF s[i] = Delimiter THEN <<cur>> \o SplitFrom(s, i + 1, <<>>)
    ELSE SplitFrom(s, i + 1, Append(cur, s[i]))

Split(s) == SplitFrom(s, 1, <<>>)

(* --------------------- Option<VecOrSingle<String>> --------------------- *)

None == [tag |-> "None", single |-> <<>>, multi |-> <<>>]
Single(s) == [tag |-> "Single", single |-> s, multi |-> <<>>]
Multiple(v) == [tag |-> "Multiple", single |-> <<>>, multi |-> v]

IsSome(x) == x.tag # "None"

\* the pattern set a VecOrSingle stands for: a scalar is a one-element
\* sequence
PatternSet(x) == IF x.tag = "Single" THEN <<x.single>> ELSE x.multi

\* equality of two optional pattern sets
PatternsEq(x, y) == /\ IsSome(x) = IsSome(y)
                    /\ PatternSet(x) = PatternSet(y)

(* ----------------------------- environment ----------------------------- *)

Unset == [set |-> FALSE, utf8 |-> TRUE, s |-> <<>>]
NotUnicode == [set |-> TRUE, utf8 |-> FALSE, s |-> <<>>]
SetTo(s) == [set |-> TRUE, utf8 |-> TRUE, s |-> s]

ListEnvVals(n) == {Unset, NotUnicode} \cup {SetTo(s) : s \in Strs(n)}

FlagUnset == [set |-> FALSE, utf8 |-> TRUE, s |-> ""]
FlagEnvVals == {FlagUnset} \cup {[set |-> TRUE, utf8 |-> TRUE, s |-> t] : t \in {"true", "false", "yes"}}

\* mutation: the include field reads the variable of the exclude field
IncludeEnvSwapped == "MIRRORD_FILE_FILTER_EXCLUDE"

\* the environment variable of the include field
IncludeEnv == "MIRRORD_FILE_FILTER_INCLUDE"
\* the environment variable of the exclude field
ExcludeEnv == "MIRRORD_FILE_FILTER_EXCLUDE"

MkEnv(ops, ro, inc, exc) ==
    [MIRRORD_FILE_OPS |-> ops, MIRRORD_FILE_RO_OPS |-> ro,
     MIRRORD_FILE_FILTER_INCLUDE |-> inc, MIRRORD_FILE_FILTER_EXCLUDE |-> exc]

\* Result<T, ConfigError>; value is meaningful only when ok
Ok(v) == [ok |-> TRUE, value |-> v]
Err(v) == [ok |-> FALSE, value |-> v]

\* <VecOrSingle<String> as FromStr>: the content split on the delimiter
ParseList(e) == IF e.utf8 THEN Ok(Multiple(Split(e.s))) ELSE Err(None)

\* <bool as FromStr>
ParseBool(e) == IF e.s = "true" THEN Ok(TRUE)
                ELSE IF e.s = "false" THEN Ok(FALSE)
                ELSE Err(FALSE)

\* FromEnv::source_value as disabled_config uses it: its value goes into a
\* field of type Option<VecOrSingle<String>> without `?`, so it has no
\* way to carry an error; a value that does not parse is None
SourceValue(e) ==
    IF ~e.set THEN None
    ELSE IF ParseList(e).ok THEN ParseList(e).value ELSE None

\* one field of the derived generate_config: explicit value, else the
\* environment variable, else the default (None)
ResolveField(explicit, e) ==
    IF IsSome(explicit) THEN Ok(explicit)
    ELSE IF ~e.set THEN Ok(None)
    ELSE ParseList(e)

(* -------------------------------- mode --------------------------------- *)

Modes == {"Disabled", "Read", "Write", "ReadWrite"}

\* mutation: the default mode is Write
DefaultModeWrite == "Write"

\* FsModeConfig::default()
DefaultMode == "Read"

ModeIsRead(m) == m \in {"Read", "ReadWrite"}
ModeIsWrite(m) == m \in {"Write", "ReadWrite"}

\* FsModeConfig::disabled_config
ModeDisabledConfig == Ok("Disabled")

\* the mode the two flags stand for, "None" when both are unset
FromEnvLogic(fs, ro) ==
    IF fs.set /\ ParseBool(fs).value THEN "ReadWrite"
    ELSE IF ro.set /\ ParseBool(ro).value THEN "Read"
    ELSE IF fs.set \/ ro.set THEN "Disabled"
    ELSE "None"

\* FsModeConfig::generate_config.  The mode field is a plain FsModeConfig
\* filled by serde(default), so a mode the user left out arrives as
\* DefaultMode: only a mode other than the default is known to be explicit.
ModeGenerateConfig(self, e) ==
    LET fs == e["MIRRORD_FILE_OPS"]
        ro == e["MIRRORD_FILE_RO_OPS"]
    IN IF self # DefaultMode THEN Ok(self)
       ELSE IF (fs.set /\ ~ParseBool(fs).ok) \/ (ro.set /\ ~ParseBool(ro).ok) THEN Err(DefaultMode)
       ELSE IF FromEnvLogic(fs, ro) # "None" THEN Ok(FromEnvLogic(fs, ro))
       ELSE Ok(DefaultMode)

(* ------------------------------ FsConfig ------------------------------- *)

MkFsConfig(mode, include, exclude) == [mode |-> mode, include |-> include, exclude |-> exclude]

\* FsConfig::default() with its mode set, as the tests build it
NoConfig == MkFsConfig(DefaultMode, None, None)

\* AdvancedFsUserConfig::default()
DefaultUserConfig == MkFsConfig(DefaultMode, None, None)

\* equality of two FsConfig values
FsConfigEq(a, b) == /\ a.mode = b.mode
                    /\ PatternsEq(a.include, b.include)
                    /\ PatternsEq(a.exclude, b.exclude)

\* mutation: the environment overrides an explicit include or exclude
GenerateConfigEnvFirst(self, e) ==
    LET mode == ModeGenerateConfig(self.mode, e)
        include == IF e[IncludeEnv].set THEN ParseList(e[IncludeEnv]) ELSE Ok(self.include)
        exclude == IF e[ExcludeEnv].set THEN ParseList(e[ExcludeEnv]) ELSE Ok(self.exclude)
    IN IF mode.ok /\ include.ok /\ exclude.ok
       THEN Ok(MkFsConfig(mode.value, include.value, exclude.value))
       ELSE Err(NoConfig)

\* mutation: only an explicit scalar counts as explicit, an explicit
\* sequence is treated as left out
GenerateConfigScalarOnly(self, e) ==
    LET scalar(x) == IF x.tag = "Single" THEN x ELSE None
        mode == ModeGenerateConfig(self.mode, e)
        include == ResolveField(scalar(self.include), e[IncludeEnv])
        exclude == ResolveField(scalar(self.exclude), e[ExcludeEnv])
    IN IF mode.ok /\ include.ok /\ exclude.ok
       THEN Ok(MkFsConfig(mode.value, include.value, exclude.value))
       ELSE Err(NoConfig)

\* AdvancedFsUserConfig::generate_config (derived, map_to = FsConfig)
GenerateConfig(self, e) ==
    LET mode == ModeGenerateConfig(self.mode, e)
        include == ResolveField(self.include, e[IncludeEnv])
        exclude == ResolveField(self.exclude, e[ExcludeEnv])
    IN IF mode.ok /\ include.ok /\ exclude.ok
       THEN Ok(MkFsConfig(mode.value, include.value, exclude.value))
       ELSE Err(NoConfig)

\* mutation: the disabled mode is resolved like a mode the user left out
DisabledConfigModeFromEnv(e) ==
    LET mode == ModeGenerateConfig(DefaultMode, e)
        include == SourceValue(e["MIRRORD_FILE_FILTER_INCLUDE"])
        exclude == SourceValue(e["MIRRORD_FILE_FILTER_EXCLUDE"])
    IN IF ~mode.ok THEN Err(NoConfig)
       ELSE Ok(MkFsConfig(mode.value, include, exclude))

\* mutation: a variable set to the empty string is treated as unset
DisabledConfigEmptyUnset(e) ==
    LET nonEmpty(v) == IF v.set /\ v.utf8 /\ v.s = <<>> THEN Unset ELSE v
        mode == ModeDisabledConfig
        include == SourceValue(nonEmpty(e["MIRRORD_FILE_FILTER_INCLUDE"]))
        exclude == SourceValue(nonEmpty(e["MIRRORD_FILE_FILTER_EXCLUDE"]))
    IN IF ~mode.ok THEN Err(NoConfig)
       ELSE Ok(MkFsConfig(mode.value, include, exclude))

\* AdvancedFsUserConfig::disabled_config
DisabledConfig(e) ==
    LET mode == ModeDisabledConfig
        include == SourceValue(e["MIRRORD_FILE_FILTER_INCLUDE"])
        exclude == SourceValue(e["MIRRORD_FILE_FILTER_EXCLUDE"])
    IN IF ~mode.ok THEN Err(NoConfig)
       ELSE Ok(MkFsConfig(mode.value, include, exclude))

\* mutation: is_read delegates to the mode's is_write
FsIsReadAsWrite(cfg) == ModeIsWrite(cfg.mode)

\* FsConfig::is_read
FsIsRead(cfg) == ModeIsRead(cfg.mode)

\* FsConfig::is_write
FsIsWrite(cfg) == ModeIsWrite(cfg.mode)

(* ------------------------------- inputs -------------------------------- *)

\* the patterns the user writes: empty, plain, and one that holds the
\* delimiter
UserPatterns == {<<>>, <<"a">>, <<"a", ",", "a">>}

Vecs == SeqsUpTo(UserPatterns, MaxVec)

\* what the user can write for include or exclude
UserFilters == {None} \cup {Single(s) : s \in UserPatterns} \cup {Multiple(v) : v \in Vecs}

\* include or exclude left out or written as one scalar
UserScalars == {None} \cup {Single(s) : s \in UserPatterns}

\* the content of a list-typed variable: up to MaxLen characters, and the
\* two-element list "a,a"
FilterEnvVals == ListEnvVals(MaxLen) \cup {SetTo(<<"a", ",", "a">>)}

\* configurations about the filters: the mode is left out of the file
InitFilters ==
    /\ user \in {MkFsConfig(DefaultMode, i, x) : i \in UserFilters, x \in UserFilters}
    /\ explicitMode = FALSE
    /\ env \in {MkEnv(FlagUnset, FlagUnset, i, x) : i \in FilterEnvVals, x \in FilterEnvVals}

\* configurations about the mode: any mode, written in the file or left
\* out of it, under any content of the two flags
InitModes ==
    /\ \E m \in Modes, written \in BOOLEAN :
          /\ (~written => m = DefaultMode)
          /\ explicitMode = written
          /\ user \in {MkFsConfig(m, i, None) : i \in UserScalars}
    /\ env \in {MkEnv(f, r, i, x) : f \in FlagEnvVals, r \in FlagEnvVals,
                                     i \in ListEnvVals(MaxLenWithFlags),
                                     x \in ListEnvVals(MaxLenWithFlags)}

Init ==
    /\ InitFilters \/ InitModes
    /\ op = "none"
    /\ result = Err(NoConfig)
    /\ asked = {}
    /\ readAns = FALSE
    /\ writeAns = FALSE

(* ------------------------------- actions ------------------------------- *)

\* user.generate_config()
GenerateConfigCall ==
    /\ op = "none"
    /\ op' = "generate"
    /\ result' = GenerateConfig(user, env)
    /\ UNCHANGED <<user, explicitMode, env, asked, readAns, writeAns>>

\* AdvancedFsUserConfig::disabled_config()
DisabledConfigCall ==
    /\ op = "none"
    /\ op' = "disabled"
    /\ result' = DisabledConfig(env)
    /\ UNCHANGED <<user, explicitMode, env, asked, readAns, writeAns>>

\* fs_config.is_read() on a resolved configuration
IsReadCall ==
    /\ op # "none"
    /\ result.ok
    /\ "is_read" \notin asked
    /\ asked' = asked \cup {"is_read"}
    /\ readAns' = FsIsRead(result.value)
    /\ UNCHANGED <<user, explicitMode, env, op, result, writeAns>>

\* fs_config.is_write() on a resolved configuration
IsWriteCall ==
    /\ op # "none"
    /\ result.ok
    /\ "is_write" \notin asked
    /\ asked' = asked \cup {"is_write"}
    /\ writeAns' = FsIsWrite(result.value)
    /\ UNCHANGED <<user, explicitMode, env, op, result, readAns>>

Next == \/ GenerateConfigCall
        \/ DisabledConfigCall
        \/ IsReadCall
        \/ IsWriteCall

Spec == Init /\ [][Next]_vars

TypeOK ==
    /\ op \in {"none", "generate", "disabled"}
    /\ result.ok \in BOOLEAN
    /\ result.value.mode \in Modes
    /\ asked \subseteq {"is_read", "is_write"}
    /\ readAns \in BOOLEAN
    /\ writeAns \in BOOLEAN

(* ------------------------------ properties ----------------------------- *)

INC == "MIRRORD_FILE_FILTER_INCLUDE"
EXC == "MIRRORD_FILE_FILTER_EXCLUDE"

\* a list variable is set to something that is not a string
ListUnparseable(e) == e.set /\ ~e.utf8
\* a flag is set to something that is not a boolean
FlagUnparseable(e) == e.set /\ e.s \notin {"true", "false"}

\* the resolution of field f consults its variable and cannot parse it
FieldEnvBad(f, name) == ~IsSome(user[f]) /\ ListUnparseable(env[name])
\* the resolution of the mode consults the flags and cannot parse one
ModeEnvBad == /\ user.mode = "Read"
              /\ \/ FlagUnparseable(env["MIRRORD_FILE_OPS"])
                 \/ FlagUnparseable(env["MIRRORD_FILE_RO_OPS"])

\* the pieces joined by the delimiter
RECURSIVE Join(_)
Join(v) == IF Len(v) = 0 THEN <<>>
           ELSE IF Len(v) = 1 THEN v[1]
           ELSE v[1] \o <<",">> \o Join(Tail(v))

NoDelimiterIn(v) == \A i \in 1..Len(v) : \A j \in 1..Len(v[i]) : v[i][j] # ","

\* C1: on the normal path an explicitly set include (exclude) is the
\* resolved include (exclude) whatever its environment variable holds; the
\* call fails only when another field's variable cannot be parsed.
PrecedenceLaw ==
    op = "generate" =>
        /\ IsSome(user.include) =>
              IF result.ok THEN result.value.include = user.include
              ELSE FieldEnvBad("exclude", EXC) \/ ModeEnvBad
        /\ IsSome(user.exclude) =>
              IF result.ok THEN result.value.exclude = user.exclude
              ELSE FieldEnvBad("include", INC) \/ ModeEnvBad

\* C1 witness: an explicit include was resolved while the include variable
\* held a different list
PrecedenceLawWitness ==
    /\ op = "generate"
    /\ result.ok
    /\ user.include = Single(<<"a">>)
    /\ env[INC] = SetTo(<<",", "a">>)
    /\ user.exclude = Multiple(<< <<"a">> >>)
    /\ env[EXC] = SetTo(<<>>)
    /\ result.value.include = Single(<<"a">>)

\* C2: the disable path always succeeds with mode Disabled, and is_read and
\* is_write of its result are false, whatever the two mode flags hold.
DisableLawMode ==
    op = "disabled" =>
        /\ result.ok
        /\ result.value.mode = "Disabled"
        /\ "is_read" \in asked => readAns = FALSE
        /\ "is_write" \in asked => writeAns = FALSE

\* C2 witness: the disable path ran with both flags asking for file
\* operations, and both predicates were asked
DisableLawModeWitness ==
    /\ op = "disabled"
    /\ env["MIRRORD_FILE_OPS"].set /\ env["MIRRORD_FILE_OPS"].s = "true"
    /\ env["MIRRORD_FILE_RO_OPS"].set /\ env["MIRRORD_FILE_RO_OPS"].s = "true"
    /\ asked = {"is_read", "is_write"}
    /\ ~readAns /\ ~writeAns

\* C3: on the disable path include and exclude are None exactly when their
\* variable is unset and otherwise hold the list parsed from the variable.
DisableLawFilters ==
    op = "disabled" =>
        /\ result.ok
        /\ \A f \in {<<"include", INC>>, <<"exclude", EXC>>} :
              /\ IsSome(result.value[f[1]]) = env[f[2]].set
              /\ env[f[2]].set =>
                    /\ result.value[f[1]].tag = "Multiple"
                    /\ env[f[2]].utf8
                    /\ Join(result.value[f[1]].multi) = env[f[2]].s
                    /\ NoDelimiterIn(result.value[f[1]].multi)

\* C4: the default user configuration under an environment with none of
\* the four variables set resolves to Ok(FsConfig{Read, None, None}).
DefaultLaw ==
    (/\ op = "generate"
     /\ user = DefaultUserConfig
     /\ \A n \in DOMAIN env : ~env[n].set)
    => /\ result.ok
       /\ result.value.mode = "Read"
       /\ result.value.include = None
       /\ result.value.exclude = None

\* C4 witness: the default configuration was resolved with nothing set
DefaultLawWitness ==
    /\ op = "generate"
    /\ user = DefaultUserConfig
    /\ ~explicitMode
    /\ \A n \in DOMAIN env : ~env[n].set
    /\ result.ok

\* C5: on the normal path a mode the user wrote is the resolved mode
\* whatever the two flags hold, and with no mode written and both flags
\* unset the resolved mode is Read.
ModePrecedence ==
    (op = "generate" /\ result.ok) =>
        /\ explicitMode => result.value.mode = user.mode
        /\ (/\ ~explicitMode
            /\ ~env["MIRRORD_FILE_OPS"].set
            /\ ~env["MIRRORD_FILE_RO_OPS"].set) => result.value.mode = "Read"

EnvFallback ==
    (op = "generate" /\ result.ok) =>
        \A f \in {<<"include", INC>>, <<"exclude", EXC>>} :
            (~IsSome(user[f[1]]) /\ env[f[2]].set) =>
                /\ result.value[f[1]].tag = "Multiple"
                /\ Join(result.value[f[1]].multi) = env[f[2]].s
                /\ NoDelimiterIn(result.value[f[1]].multi)
                /\ env[f[2]].s = <<"a", ",", "a">> =>
                      result.value[f[1]].multi = << <<"a">>, <<"a">> >>

\* C7 witness: the include variable "a,a" was resolved with no user value
EnvFallbackWitness ==
    /\ op = "generate"
    /\ result.ok
    /\ user.include = None
    /\ env[INC] = SetTo(<<"a", ",", "a">>)
    /\ ~env[EXC].set
    /\ result.value.include = Multiple(<< <<"a">>, <<"a">> >>)

\* C8: on both paths a call that consults a variable it cannot parse
\* returns an error.
ParseErrorsSurfaced ==
    /\ (/\ op = "generate"
        /\ FieldEnvBad("include", INC) \/ FieldEnvBad("exclude", EXC) \/ ModeEnvBad)
       => ~result.ok
    /\ (/\ op = "disabled"
        /\ ListUnparseable(env[INC]) \/ ListUnparseable(env[EXC]))
       => ~result.ok

\* C9: on both paths a field with no explicit value whose variable is set
\* to the empty string resolves to a present value with no content, which
\* differs from the None of an unset variable.
EmptyStringAsSet ==
    \A f \in {<<"include", INC>>, <<"exclude", EXC>>} :
        (/\ result.ok
         /\ env[f[2]] = SetTo(<<>>)
         /\ \/ op = "disabled"
            \/ op = "generate" /\ ~IsSome(user[f[1]]))
        => /\ IsSome(result.value[f[1]])
           /\ result.value[f[1]] # None
           /\ ~PatternsEq(result.value[f[1]], None)
           /\ \A i \in 1..Len(PatternSet(result.value[f[1]])) :
                 PatternSet(result.value[f[1]])[i] = <<>>

\* C9 witness: the disable path ran with the include variable empty and
\* the exclude variable unset
EmptyStringAsSetWitness ==
    /\ op = "disabled"
    /\ env[INC] = SetTo(<<>>)
    /\ ~env[EXC].set
    /\ IsSome(result.value.include)
    /\ ~IsSome(result.value.exclude)

\* C10: is_read and is_write of a resolved FsConfig depend on its mode
\* alone: Disabled (false, false), Read (true, false), Write (false, true),
\* ReadWrite (true, true).
ModePredicates ==
    result.ok =>
        /\ "is_read" \in asked =>
              readAns = CASE result.value.mode = "Disabled" -> FALSE
                          [] result.value.mode = "Read" -> TRUE
                          [] result.value.mode = "Write" -> FALSE
                          [] result.value.mode = "ReadWrite" -> TRUE
        /\ "is_write" \in asked =>
              writeAns = CASE result.value.mode = "Disabled" -> FALSE
                           [] result.value.mode = "Read" -> FALSE
                           [] result.value.mode = "Write" -> TRUE
                           [] result.value.mode = "ReadWrite" -> TRUE

\* C10 witness: both predicates were asked of a Read configuration that
\* carries an include
ModePredicatesWitness ==
    /\ op = "generate"
    /\ result.ok
    /\ result.value.mode = "Read"
    /\ IsSome(result.value.include)
    /\ asked = {"is_read", "is_write"}
    /\ readAns /\ ~writeAns

====
